---- MODULE Spec2Model ----
(***************************************************************************)
(* Workbench audio/MIDI bridge: configuration merge (workbench_config.c)   *)
(* and the audio and MIDI engines (workbench_audio.c, which also holds the *)
(* MIDI engine from line 122 on).                                          *)
(*                                                                         *)
(* Text is a sequence of one-character strings.  A double is an exact      *)
(* decimal [m, e] standing for m * 10^(-e), normalised.  The native        *)
(* runtimes (PortAudio, PortMidi, PortTime) are modelled by the state of   *)
(* their handles; the steps of config_init whose failure the code tests    *)
(* (TRY, MIDI_TRY) fail nondeterministically.                              *)
(***************************************************************************)
EXTENDS Integers, Sequences, FiniteSets, TLC

VARIABLES
  argv,          \* command line after argv[0]; strtok writes into it
  fileOk,        \* whether fopen of the --config path succeeds
  fileLines,     \* the lines of that file
  audio_cb,      \* config_init argument: user audio routine registered
  midi_cb,       \* config_init argument: user MIDI routine registered
  user_data,     \* config_init argument: the host's context object, or NULL
  pc,            \* position of the host (main) thread
  i,             \* argparse: index of the next argv entry
  cl_args,       \* argparse: recognised (arg, val) pairs
  cl_args_num,   \* config_init: pairs not yet applied
  config_file,   \* path given by --config, or NULL
  ln,            \* read_config_from_file: lines consumed
  config,        \* config_init's local Config
  cfg,           \* the global __cfg
  warnings,      \* log_w messages emitted
  fileAssigned,  \* history: (arg, val) pairs read_config_from_file handed to parse_val
  unknownSeen,   \* history: sources whose assignment was rejected as unknown
  ret,           \* where audio_deinit / midi_deinit returns to
  deinits,       \* calls of config_deinit made by the host
  paInit,        \* PortAudio is initialised
  stream,        \* static PaStream *stream and the state of what it points to
  audio_ids,     \* __audio_in_id, __audio_out_id
  stream_params, \* input_parameters.device, output_parameters.device
  pmInit,        \* PortMidi is initialised
  midi_in,       \* static PmStream *midi_in and the state of what it points to
  midi_out,      \* static PmStream *midi_out, likewise
  buffers,       \* midi_in_buffer, midi_out_buffer: "NULL", "live" or "freed"
  midi_ids,      \* __midi_in_id, __midi_out_id
  midi_dev,      \* device ids the open MIDI streams were opened on
  ptRunning,     \* the PortTime timer started by Pt_Start is running
  th,            \* position of the audio callback thread and of the timer thread
  inlen,         \* __midi_callback's in_queue_length, per thread
  outlen,        \* __midi_callback's out_queue_length, per thread
  blockTick,     \* history: the MIDI tick of the current audio block has completed
  frees,         \* history: calls of free() on each heap object
  devicesPresent,\* the native runtimes enumerate devices and report defaults
  sets,          \* typed setter calls of the host: how many, and the last one
  errors,        \* messages emitted by log_e
  failed,        \* history: engines one of whose initialisation steps failed
  nread,         \* history: events the last Pm_Read stored, per thread
  midi_cfg,      \* the MIDI engine's static Config *cfg: "NULL" or "set"
  owned,         \* live heap copies the core made for each text field
  held,          \* what each text field refers to: the field of config during
                 \* the merge of config_init, the field of __cfg otherwise
  pa_calls       \* history: invocations of Pa_StopStream, Pa_CloseStream and
                 \* Pa_Terminate made by the current audio_deinit

cfgVars == <<argv, fileOk, fileLines, audio_cb, midi_cb, user_data, pc, i, cl_args,
             cl_args_num, config_file, ln, config, cfg, warnings,
             fileAssigned, unknownSeen>>

mergeVars == <<argv, fileOk, fileLines, audio_cb, midi_cb, user_data, i, cl_args,
               cl_args_num, config_file, ln, config, fileAssigned, unknownSeen>>

audioVars == <<paInit, stream, audio_ids, stream_params>>

midiVars == <<pmInit, midi_in, midi_out, buffers, midi_ids, midi_dev, ptRunning>>

threadVars == <<th, inlen, outlen, blockTick>>

engVars == <<ret, deinits, audioVars, midiVars, threadVars, frees>>

extVars == <<devicesPresent, sets, errors, failed, nread, midi_cfg, owned, held,
             pa_calls>>

vars == <<cfgVars, engVars, extVars>>

\* ------------------------------------------------------------------ bounds
MaxArgs == 2
MaxFileLines == 2

\* ------------------------------------------------------- field descriptors
NULL == <<"NULL">>
NoVal == <<"NOVAL">>

Dbl(m, e) == [m |-> m, e |-> e]

DEFAULT_IN_CHANNELS_COUNT == 1
DEFAULT_OUT_CHANNELS_COUNT == 2

\* CONFIG(FIELD): the one list of (type, field, default)
CONFIG ==
  << [type |-> "char *",   field |-> "midi_input",           default |-> NULL],
     [type |-> "char *",   field |-> "midi_output",          default |-> NULL],
     [type |-> "int",      field |-> "midi_output_latecncy", default |-> 0],
     [type |-> "int",      field |-> "midi_buffer_size",     default |-> 1024],
     [type |-> "char *",   field |-> "audio_input",          default |-> NULL],
     [type |-> "char *",   field |-> "audio_output",         default |-> NULL],
     [type |-> "double",   field |-> "sample_rate",          default |-> Dbl(44100, 0)],
     [type |-> "uint32_t", field |-> "block_size",           default |-> 512],
     [type |-> "uint32_t", field |-> "audio_flags",          default |-> 0],
     [type |-> "int",      field |-> "in_channel_count",     default |-> DEFAULT_IN_CHANNELS_COUNT],
     [type |-> "int",      field |-> "out_channel_count",    default |-> DEFAULT_OUT_CHANNELS_COUNT],
     [type |-> "double",   field |-> "suggested_latency",    default |-> Dbl(-1, 0)],
     [type |-> "uint32_t", field |-> "flags",                default |-> 0],
     [type |-> "uint8_t",  field |-> "log_level",            default |-> 4] >>

FieldNames == {CONFIG[k].field : k \in 1..Len(CONFIG)}

Descriptor(f) == CONFIG[CHOOSE k \in 1..Len(CONFIG) : CONFIG[k].field = f]

IS_TEXT_TYPE(t) == t \in {"char *", "const char *"}
IS_INT_TYPE(t) == t \in {"int8_t", "int16_t", "int", "int32_t", "int64_t"}
IS_UINT_TYPE(t) == t \in {"uint8_t", "uint16_t", "uint32_t", "uint64_t"}
IS_FLOAT_TYPE(t) == t \in {"float", "double"}

\* --------------------------------------------------------- text -> number
Digits == <<"0", "1", "2", "3", "4", "5", "6", "7", "8", "9">>
IsDigit(c) == \E d \in 1..10 : Digits[d] = c
DigitVal(c) == (CHOOSE d \in 1..10 : Digits[d] = c) - 1

\* length of the longest prefix of s[from..] made of digits
RECURSIVE DigitRun(_, _)
DigitRun(s, from) ==
  IF from <= Len(s) /\ IsDigit(s[from]) THEN 1 + DigitRun(s, from + 1) ELSE 0

\* value of the n digits of s starting at from
RECURSIVE DigitsValue(_, _, _)
DigitsValue(s, from, n) ==
  IF n = 0 THEN 0
  ELSE 10 * DigitsValue(s, from, n - 1) + DigitVal(s[from + n - 1])

\* leading blanks skipped by the strto* family
RECURSIVE Blanks(_, _)
Blanks(s, from) ==
  IF from <= Len(s) /\ s[from] = " " THEN 1 + Blanks(s, from + 1) ELSE 0

\* strtoll(val, NULL, 10): blanks, an optional
\* sign, then the longest run of digits; 0 when there is no digit.  Texts are
\* shorter than ten digits, so the 64-bit result never saturates.
strtoll(val) ==
  LET b    == 1 + Blanks(val, 1)
      sgn  == b <= Len(val) /\ val[b] \in {"-", "+"}
      d    == IF sgn THEN b + 1 ELSE b
      n    == DigitRun(val, d)
      mag  == DigitsValue(val, d, n)
  IN IF sgn /\ val[b] = "-" THEN 0 - mag ELSE mag

\* strtoull(val, NULL, 10): the same scan; a negated value is kept as the
\* integer congruent to it modulo 2^64
strtoull(val) == strtoll(val)

RECURSIVE Normal(_, _)
Normal(m, e) ==
  IF e > 0 /\ m % 10 = 0 THEN Normal(m \div 10, e - 1) ELSE Dbl(m, e)

\* strtod(val, NULL): blanks, optional sign, digits, optional fraction; 0.0
\* when no number starts the text (the alphabet has no exponent letters)
strtod(val) ==
  LET b    == 1 + Blanks(val, 1)
      sgn  == b <= Len(val) /\ val[b] \in {"-", "+"}
      d    == IF sgn THEN b + 1 ELSE b
      n    == DigitRun(val, d)
      dot  == d + n <= Len(val) /\ val[d + n] = "."
      k    == IF dot THEN DigitRun(val, d + n + 1) ELSE 0
      frac == IF n = 0 /\ k = 0 THEN 0 ELSE k
      ip   == DigitsValue(val, d, n)
      fp   == IF frac = 0 THEN 0 ELSE DigitsValue(val, d + n + 1, frac)
      mag  == ip * (10 ^ frac) + fp
  IN Normal(IF sgn /\ val[b] = "-" THEN 0 - mag ELSE mag, frac)

\* *((type *)result): the bytes of result read back at the field's type.
\* int32_t/uint32_t keep every value a text of fewer than ten digits can
\* give; uint8_t keeps the low byte (little-endian hosts).
ReadBack(t, v) == IF t = "uint8_t" THEN v % 256 ELSE v

\* the conversion of WORKBENCH_CONFIG_PARSE_STRING for a field of type t;
\* "unknown" stands for the branch that warns and returns
ParseString(t, val) ==
  IF IS_TEXT_TYPE(t) THEN val                       \* strdup(val)
  ELSE IF IS_INT_TYPE(t) THEN ReadBack(t, strtoll(val))
  ELSE IF IS_UINT_TYPE(t) THEN ReadBack(t, strtoull(val))
  ELSE IF IS_FLOAT_TYPE(t) THEN strtod(val)
  ELSE "unknown"

KnownType(t) ==
  IS_TEXT_TYPE(t) \/ IS_INT_TYPE(t) \/ IS_UINT_TYPE(t) \/ IS_FLOAT_TYPE(t)

\* parse_val that keeps a field some source has already set
parse_val_first_wins(c, arg, val) ==
  IF arg \in FieldNames /\ KnownType(Descriptor(arg).type)
  THEN IF c[arg] # Descriptor(arg).default THEN c
       ELSE [c EXCEPT ![arg] = ParseString(Descriptor(arg).type, val)]
  ELSE c

\* parse_val whose chain of else-ifs ends in the first field instead of the
\* warning
parse_val_unknown_stored(c, arg, val) ==
  IF arg \in FieldNames /\ KnownType(Descriptor(arg).type)
  THEN [c EXCEPT ![arg] = ParseString(Descriptor(arg).type, val)]
  ELSE [c EXCEPT !["midi_input"] = val]

\* parse_val(config, arg, val): the resulting Config
parse_val(c, arg, val) ==
  IF arg \in FieldNames /\ KnownType(Descriptor(arg).type)
  THEN [c EXCEPT ![arg] = ParseString(Descriptor(arg).type, val)]
  ELSE c

\* log_w calls of parse_val(config, arg, val)
parse_val_warns(arg) ==
  IF arg \in FieldNames /\ KnownType(Descriptor(arg).type) THEN 0 ELSE 1

\* the char * fields of CONFIG
TextFields == {f \in FieldNames : IS_TEXT_TYPE(Descriptor(f).type)}

\* *((char **)result) = strdup(val): parse_val makes a new heap copy for a
\* text field each time it assigns one; the copy a field held before stays
\* allocated
parse_val_copies(o, arg) ==
  IF arg \in TextFields THEN [o EXCEPT ![arg] = @ + 1] ELSE o

\* log_w prints when the global log level is above 1
LogW(n) == IF cfg.log_level > 1 THEN n ELSE 0

\* log_e prints when get_log_level() > 0
LogE(n) == IF cfg.log_level > 0 THEN n ELSE 0

\* Config config = {CONFIG(DEFAULT)}
Defaults == [f \in FieldNames |-> Descriptor(f).default]

\* typedef struct { audio_callback; midi_callback; user_data; CONFIG(...) } Config
ConfigKeys == FieldNames \cup {"audio_callback", "midi_callback", "user_data"}

\* static Config __cfg = {0}
ZeroCfg ==
  [f \in ConfigKeys |->
     IF f \in {"audio_callback", "midi_callback"} THEN FALSE
     ELSE IF f = "user_data" THEN NULL
     ELSE IF IS_TEXT_TYPE(Descriptor(f).type) THEN NULL
     ELSE IF IS_FLOAT_TYPE(Descriptor(f).type) THEN Dbl(0, 0)
     ELSE 0]

\* ------------------------------------------------------------------ inputs
T48000 == <<"4", "8", "0", "0", "0">>
T96000 == <<"9", "6", "0", "0", "0">>
T300 == <<"3", "0", "0">>
T7x == <<"7", "x">>
TNeg1p5 == <<"-", "1", ".", "5">>
TJunk == <<"x">>
TNeg == <<"-", "2">>
TPath == <<"f">>
TDev == <<"d">>
TMissing == <<"z">>
TMuted == <<"m">>

Tok(d, k, v) == [dashes |-> d, key |-> k, val |-> v]

\* argv entries: --key=value, --key (value in the next entry), -flag, word
CfgTokens ==
  { Tok(2, "config", TPath),
    Tok(2, "sample_rate", T96000),
    Tok(2, "sample_rate", TJunk),
    Tok(2, "bogus", T48000),
    Tok(2, "midi_buffer_size", TNeg),
    Tok(2, "block_size", NoVal),
    Tok(1, "v", NoVal),
    Tok(0, "", T7x) }

Line(k, key, v) == [kind |-> k, key |-> key, val |-> v]

\* lines of the config file: "# ...", "key: value", and a line without value
CfgLines ==
  { Line("comment", "", NoVal),
    Line("assign", "sample_rate", T48000),
    Line("assign", "log_level", T300),
    Line("assign", "midi_input", TDev),
    Line("assign", "suggested_latency", TNeg1p5),
    Line("assign", "bogus", T96000),
    Line("bare", "bogus", NoVal) }

RECURSIVE SeqsUpTo(_, _)
SeqsUpTo(S, n) ==
  IF n = 0 THEN {<<>>}
  ELSE LET shorter == SeqsUpTo(S, n - 1)
       IN shorter \cup {Append(s, x) : s \in shorter, x \in S}

StartsWithDash(t) == Len(t) > 0 /\ t[1] = "-"

\* objects handed to free(): the two MIDI event buffers, the text copies
\* held by __cfg.midi_input and __cfg.midi_output, and user_data
HeapObjects == {"midi_in_buffer", "midi_out_buffer", "midi_input", "midi_output", "user_data"}

\* paNoDevice, pmNoDevice
NoDevice == 0 - 1

\* ------------------------------------------------------------ config_init
\* log_d("Start config"); Config config = {CONFIG(DEFAULT)}; cl_args = malloc;
\* entry of argparse: __cfg.log_level = 3
ConfigInitStart ==
  /\ pc = "start"
  /\ config' = Defaults
  /\ cfg' = [cfg EXCEPT !["log_level"] = 3]
  /\ cl_args' = <<>>
  /\ cl_args_num' = 0
  /\ config_file' = NULL
  /\ i' = 1
  /\ pc' = "argparse"
  /\ UNCHANGED engVars
  /\ UNCHANGED <<argv, fileOk, fileLines, audio_cb, midi_cb, user_data, ln, warnings,
                 fileAssigned, unknownSeen>>
  /\ UNCHANGED extVars

\* a recognizer that stores every identifier other than config
Recognise_stores_unknown(arg, val) ==
  IF arg = "config"
  THEN /\ config_file' = val
       /\ UNCHANGED <<cl_args, cl_args_num, warnings, unknownSeen>>
  ELSE /\ cl_args' = Append(cl_args, [arg |-> arg, val |-> val])
       /\ cl_args_num' = cl_args_num + 1
       /\ UNCHANGED <<config_file, warnings, unknownSeen>>

\* the if / else-if chain of argparse on a lexed (arg, val): --config names
\* the file, a field name is stored in arguments[], anything else is warned
Recognise(arg, val) ==
  IF arg = "config"
  THEN /\ config_file' = val
       /\ UNCHANGED <<cl_args, cl_args_num, warnings, unknownSeen>>
  ELSE IF arg \in FieldNames
  THEN /\ cl_args' = Append(cl_args, [arg |-> arg, val |-> val])
       /\ cl_args_num' = cl_args_num + 1
       /\ UNCHANGED <<config_file, warnings, unknownSeen>>
  ELSE /\ warnings' = warnings + LogW(1)
       /\ unknownSeen' = unknownSeen \cup {"cli"}
       /\ UNCHANGED <<cl_args, cl_args_num, config_file>>

\* one turn of argparse's for loop, on argv[i]
Argparse ==
  /\ pc = "argparse"
  /\ i <= Len(argv)
  /\ LET tok  == argv[i]
         own  == tok.val # NoVal
         next == i + 1 <= Len(argv)
         \* strtok(arg, "=") ends the key with a NUL written over '='
         cut  == [argv EXCEPT ![i].val = NoVal]
     IN
     IF tok.dashes < 2
     THEN \* case 0: break; case 1: log_d("Flags")
          /\ i' = i + 1
          /\ UNCHANGED <<argv, cl_args, cl_args_num, config_file, warnings,
                         unknownSeen, pc>>
     ELSE IF ~own /\ ~next
     THEN \* val = argv[argc] is NULL, so the while loop reads argv[argc + 1],
          \* past the vector: the read faults, or yields whatever follows
          \/ /\ pc' = "crashed"
             /\ UNCHANGED <<argv, i, cl_args, cl_args_num, config_file,
                            warnings, unknownSeen>>
          \/ /\ i' = i + 3
             /\ Recognise(tok.key, TJunk)
             /\ UNCHANGED <<argv, pc>>
     ELSE LET val == IF own THEN tok.val ELSE argv[i + 1].val
              dash == IF own THEN StartsWithDash(tok.val)
                      ELSE argv[i + 1].dashes > 0
          IN IF dash
             THEN \* log_w("No value for arg"); i--; continue
                  /\ warnings' = warnings + LogW(1)
                  /\ i' = IF own THEN i ELSE i + 1
                  /\ argv' = IF own THEN cut ELSE argv
                  /\ UNCHANGED <<cl_args, cl_args_num, config_file,
                                 unknownSeen, pc>>
             ELSE /\ i' = IF own THEN i + 1 ELSE i + 2
                  /\ argv' = IF own THEN cut ELSE argv
                  /\ Recognise(tok.key, val)
                  /\ UNCHANGED pc
  /\ UNCHANGED engVars
  /\ UNCHANGED <<fileOk, fileLines, audio_cb, midi_cb, user_data, ln, config, cfg,
                 fileAssigned>>
  /\ UNCHANGED extVars

\* a config_init that gives up when the named file cannot be opened
ReadConfigOpen_fatal ==
  /\ pc = "argparse"
  /\ i > Len(argv)
  /\ ln' = 0
  /\ pc' = IF config_file = NULL THEN "applycli"
           ELSE IF fileOk THEN "readfile" ELSE "crashed"
  /\ UNCHANGED engVars
  /\ UNCHANGED <<argv, fileOk, fileLines, audio_cb, midi_cb, user_data, i, cl_args,
                 cl_args_num, config_file, config, cfg, warnings, fileAssigned,
                 unknownSeen>>
  /\ UNCHANGED extVars

\* argparse returns; if (config_file) read_config_from_file: fopen
ReadConfigOpen ==
  /\ pc = "argparse"
  /\ i > Len(argv)
  /\ ln' = 0
  /\ pc' = IF config_file # NULL /\ fileOk THEN "readfile" ELSE "applycli"
  /\ UNCHANGED engVars
  /\ UNCHANGED <<argv, fileOk, fileLines, audio_cb, midi_cb, user_data, i, cl_args,
                 cl_args_num, config_file, config, cfg, warnings, fileAssigned,
                 unknownSeen>>
  /\ UNCHANGED extVars

\* one turn of read_config_from_file's while (fgets(...)) loop
ReadConfigLine ==
  /\ pc = "readfile"
  /\ ln < Len(fileLines)
  /\ ln' = ln + 1
  /\ LET line == fileLines[ln + 1]
     IN
     IF line.kind = "comment"
     THEN \* starts_with(buffer, "#"): continue
          UNCHANGED <<pc, config, warnings, fileAssigned, unknownSeen, owned>>
     ELSE IF line.kind = "bare"
     THEN \* val = strtok(NULL, ":") is NULL and *val reads through it
          /\ pc' = "crashed"
          /\ UNCHANGED <<config, warnings, fileAssigned, unknownSeen, owned>>
     ELSE /\ config' = parse_val(config, line.key, line.val)
          /\ owned' = parse_val_copies(owned, line.key)
          /\ warnings' = warnings + LogW(parse_val_warns(line.key))
          /\ fileAssigned' = Append(fileAssigned, [arg |-> line.key, val |-> line.val])
          /\ unknownSeen' = IF line.key \in FieldNames THEN unknownSeen
                            ELSE unknownSeen \cup {"file"}
          /\ UNCHANGED pc
  /\ UNCHANGED engVars
  /\ UNCHANGED <<argv, fileOk, fileLines, audio_cb, midi_cb, user_data, i, cl_args,
                 cl_args_num, config_file, cfg>>
  /\ UNCHANGED <<devicesPresent, pa_calls, sets, errors, failed, nread, midi_cfg, held>>

\* fgets returns NULL: fclose, return
ReadConfigEnd ==
  /\ pc = "readfile"
  /\ ln = Len(fileLines)
  /\ pc' = "applycli"
  /\ UNCHANGED engVars
  /\ UNCHANGED <<argv, fileOk, fileLines, audio_cb, midi_cb, user_data, i, cl_args,
                 cl_args_num, config_file, ln, config, cfg, warnings,
                 fileAssigned, unknownSeen>>
  /\ UNCHANGED extVars

\* the pair the next turn of while (cl_args_num--) hands to parse_val
NextCliArg == cl_args[cl_args_num]

\* one turn of while (cl_args_num--) parse_val(&config, ...)
ApplyCliArg ==
  /\ pc = "applycli"
  /\ cl_args_num > 0
  /\ cl_args_num' = cl_args_num - 1
  /\ config' = parse_val(config, NextCliArg.arg, NextCliArg.val)
  /\ owned' = parse_val_copies(owned, NextCliArg.arg)
  /\ warnings' = warnings + LogW(parse_val_warns(NextCliArg.arg))
  /\ UNCHANGED engVars
  /\ UNCHANGED <<argv, fileOk, fileLines, audio_cb, midi_cb, user_data, pc, i, cl_args,
                 config_file, ln, cfg, fileAssigned, unknownSeen>>
  /\ UNCHANGED <<devicesPresent, pa_calls, sets, errors, failed, nread, midi_cfg, held>>

\* CONFIG(INIT): __cfg.field = config.field, then the callbacks
CommitConfig(c) ==
  [f \in ConfigKeys |->
     IF f = "audio_callback" THEN audio_cb
     ELSE IF f = "midi_callback" THEN midi_cb
     ELSE IF f = "user_data" THEN user_data
     ELSE c[f]]

\* the loop ends (cl_args_num is left at -1); copy to __cfg, print_config,
\* set pointers and callbacks
ConfigCommit ==
  /\ pc = "applycli"
  /\ cl_args_num = 0
  /\ cl_args_num' = 0 - 1
  /\ cfg' = CommitConfig(config)
  /\ held' = [f \in TextFields |-> IF config[f] # NULL THEN "owned" ELSE "null"]
  /\ pc' = "init_midi"
  /\ UNCHANGED engVars
  /\ UNCHANGED <<argv, fileOk, fileLines, audio_cb, midi_cb, user_data, i, cl_args,
                 config_file, ln, config, warnings, fileAssigned, unknownSeen>>
  /\ UNCHANGED <<devicesPresent, pa_calls, sets, errors, failed, nread, midi_cfg, owned>>

\* if (midi_cb) is false: midi_init is not called
InitMidiSkip ==
  /\ pc = "init_midi"
  /\ ~cfg.midi_callback
  /\ pc' = "init_audio"
  /\ UNCHANGED <<mergeVars, cfg, warnings, engVars>>
  /\ UNCHANGED extVars

\* if (audio_cb) is false: audio_init is not called
InitAudioSkip ==
  /\ pc = "init_audio"
  /\ ~cfg.audio_callback
  /\ pc' = "init_done"
  /\ UNCHANGED <<mergeVars, cfg, warnings, engVars>>
  /\ UNCHANGED extVars

\* free(config_file), free(cl_args), return &__cfg
ConfigInitReturn ==
  /\ pc = "init_done"
  /\ pc' = "running"
  /\ UNCHANGED <<mergeVars, cfg, warnings, engVars>>
  /\ UNCHANGED extVars

\* ------------------------------------------------------ native environment
\* enum flags: FLAG = (1 << FLAG_BIT)
DISABLE_MIDI == 1
DISABLE_MIDI_IN == 4
DISABLE_MIDI_OUT == 8

\* a flag test that never finds the bit set
HasFlag_never(flags, bit) == FALSE

\* flags & FLAG
HasFlag(flags, FLAG) == (flags \div FLAG) % 2 = 1

\* what Pa_GetDeviceCount / Pa_GetDeviceInfo report; device ids count from 0
AudioDevices ==
  << [name |-> TMuted, maxInputChannels |-> 0, maxOutputChannels |-> 0],
     [name |-> TDev, maxInputChannels |-> 2, maxOutputChannels |-> 0],
     [name |-> <<"o">>, maxInputChannels |-> 0, maxOutputChannels |-> 2] >>

Pa_GetDeviceCount == IF devicesPresent THEN Len(AudioDevices) ELSE 0
Pa_GetDeviceInfo(id) == AudioDevices[id + 1]
\* Pa_GetDeviceInfo returns a null pointer for any other id
HasDeviceInfo(id) == id \in 0..(Pa_GetDeviceCount - 1)
\* paNoDevice when there is no device of that direction
Pa_GetDefaultInputDevice == IF devicesPresent THEN 1 ELSE NoDevice
Pa_GetDefaultOutputDevice == IF devicesPresent THEN 2 ELSE NoDevice

\* what Pm_CountDevices / Pm_GetDeviceInfo report
MidiDevices ==
  << [name |-> <<"o">>, input |-> FALSE],
     [name |-> <<"k">>, input |-> TRUE],
     [name |-> TDev, input |-> FALSE],
     [name |-> TDev, input |-> TRUE] >>

Pm_CountDevices == IF devicesPresent THEN Len(MidiDevices) ELSE 0
Pm_GetDeviceInfo(id) == MidiDevices[id + 1]
\* pmNoDevice when there is no device of that direction
Pm_GetDefaultInputDeviceID == IF devicesPresent THEN 1 ELSE NoDevice
Pm_GetDefaultOutputDeviceID == IF devicesPresent THEN 2 ELSE NoDevice

\* PmError pmBadPtr, returned for a null stream
pmBadPtr == 0 - 9995

\* free(p): the pointer keeps its value, the object is released
Free(p) == IF p = "NULL" THEN "NULL" ELSE "freed"

\* a Pm_Close that leaves the stream open
Pm_Close_leaves_open(s) == s

\* Pm_Close(s): a null stream is refused with pmBadPtr, an open one is closed;
\* s itself is never reset
Pm_Close(s) == IF s = "open" THEN "closed" ELSE s

\* the outcomes of an operation that is undefined when `undefined` holds
Outcomes(undefined, next) == IF undefined THEN {next, "crashed"} ELSE {next}

\* ------------------------------------------------------ device resolution
\* audio_device_find: reports whether a device of that name with enough
\* channels exists; it records no device id
AudioMatches(pattern) ==
  {k \in 0..(Pa_GetDeviceCount - 1) : Pa_GetDeviceInfo(k).name = pattern}

AudioFirstMatch(pattern) ==
  CHOOSE k \in AudioMatches(pattern) : \A j \in AudioMatches(pattern) : k <= j

not_enough_channels_never(pattern, input, c) == FALSE

not_enough_channels(pattern, input, c) ==
  IF input
    THEN Pa_GetDeviceInfo(AudioFirstMatch(pattern)).maxInputChannels < c.in_channel_count
    ELSE Pa_GetDeviceInfo(AudioFirstMatch(pattern)).maxOutputChannels < c.out_channel_count

audio_device_find(pattern, input, c) ==
  /\ pattern # NULL
  /\ AudioMatches(pattern) # {}
  /\ ~not_enough_channels(pattern, input, c)

\* the value of __audio_in_id / __audio_out_id after audio_init's selection
AudioDeviceId_keeps_static(name, input, c, cur) == cur

AudioDeviceId(name, input, c, cur) ==
  LET default == IF input THEN Pa_GetDefaultInputDevice ELSE Pa_GetDefaultOutputDevice
  IN IF name = NULL THEN default
     ELSE IF ~audio_device_find(name, input, c) THEN default
     ELSE cur

AudioDeviceWarnings_silent(name, input, c) == 0

\* warnings of audio_device_find and of the fallback in audio_init
AudioDeviceWarnings(name, input, c) ==
  IF name = NULL \/ audio_device_find(name, input, c) THEN 0
  ELSE IF AudioMatches(name) # {} THEN 2 ELSE 1

\* midi_device_find: the first device of that direction and name
MidiMatches(pattern, input) ==
  {k \in 0..(Pm_CountDevices - 1) :
     Pm_GetDeviceInfo(k).input = input /\ Pm_GetDeviceInfo(k).name = pattern}

midi_device_find(pattern, input) ==
  pattern # NULL /\ MidiMatches(pattern, input) # {}

\* the value of __midi_in_id / __midi_out_id after midi_init's selection
MidiDeviceId(name, input, cur) ==
  LET default == IF input THEN Pm_GetDefaultInputDeviceID ELSE Pm_GetDefaultOutputDeviceID
      found == MidiMatches(name, input)
  IN IF name = NULL THEN default
     ELSE IF ~midi_device_find(name, input) THEN default
     ELSE CHOOSE k \in found : \A j \in found : k <= j

MidiDeviceWarnings(name, input) ==
  IF name = NULL \/ midi_device_find(name, input) THEN 0 ELSE 1

\* Pm_OpenInput / Pm_OpenOutput can succeed on a device of that direction
MidiOpenable(id, input) ==
  id \in 0..(Pm_CountDevices - 1) /\ Pm_GetDeviceInfo(id).input = input

\* --------------------------------------------------------------- midi_init
\* if (!cfg->audio_callback) Pt_Start(...)
StartsTimer_always(c) == TRUE

StartsTimer(c) == ~c.audio_callback

\* cfg = config_get(); MIDI_TRY(Pm_Initialize())
MidiInitStart ==
  /\ pc = "init_midi"
  /\ cfg.midi_callback
  /\ midi_cfg' = "set"
  /\ \/ /\ pmInit' = TRUE
        /\ pc' = "mi_alloc"
        /\ UNCHANGED <<errors, failed>>
        /\ ret' = ret
     \/ /\ pmInit' = pmInit
        /\ pc' = "md_stop"
        /\ errors' = errors + LogE(1)
        /\ failed' = failed \cup {"midi"}
        /\ ret' = "init_audio"
  /\ UNCHANGED <<mergeVars, cfg, warnings, deinits, audioVars, threadVars, frees>>
  /\ UNCHANGED <<midi_in, midi_out, buffers, midi_ids, midi_dev, ptRunning>>
  /\ UNCHANGED <<devicesPresent, pa_calls, sets, nread, owned, held>>

\* both buffers are allocated, then the timer is started if no audio routine
MidiInitAlloc ==
  /\ pc = "mi_alloc"
  /\ buffers' = [in |-> "live", out |-> "live"]
  /\ ptRunning' = IF StartsTimer(cfg) THEN TRUE ELSE ptRunning
  /\ pc' = "mi_in"
  /\ UNCHANGED <<mergeVars, cfg, warnings, ret, deinits, audioVars, threadVars, frees>>
  /\ UNCHANGED <<pmInit, midi_in, midi_out, midi_ids, midi_dev>>
  /\ UNCHANGED extVars

\* input selection and MIDI_TRY(Pm_OpenInput(&midi_in, __midi_in_id, ...))
MidiInitOpenIn ==
  /\ pc = "mi_in"
  /\ IF HasFlag(cfg.flags, DISABLE_MIDI_IN)
       THEN /\ pc' = "mi_out"
            /\ UNCHANGED <<midi_in, midi_ids, midi_dev, warnings, ret, errors, failed>>
       ELSE LET id == MidiDeviceId(cfg.midi_input, TRUE, midi_ids.in)
            IN /\ midi_ids' = [midi_ids EXCEPT !.in = id]
               /\ warnings' = warnings + LogW(MidiDeviceWarnings(cfg.midi_input, TRUE))
               /\ \/ /\ MidiOpenable(id, TRUE)
                     /\ midi_in' = "open"
                     /\ midi_dev' = [midi_dev EXCEPT !.in = id]
                     /\ pc' = "mi_filter"
                     /\ UNCHANGED <<errors, failed>>
                     /\ ret' = ret
                  \/ /\ midi_in' = "NULL"
                     /\ midi_dev' = midi_dev
                     /\ pc' = "md_stop"
                     /\ errors' = errors + LogE(1)
                     /\ failed' = failed \cup {"midi"}
                     /\ ret' = "init_audio"
  /\ UNCHANGED <<mergeVars, cfg, deinits, audioVars, threadVars, frees>>
  /\ UNCHANGED <<pmInit, midi_out, buffers, ptRunning>>
  /\ UNCHANGED <<devicesPresent, pa_calls, sets, nread, midi_cfg, owned, held>>

\* MIDI_TRY(Pm_SetFilter(midi_in, PM_FILT_ACTIVE))
MidiInitFilter ==
  /\ pc = "mi_filter"
  /\ \/ /\ pc' = "mi_out"
        /\ UNCHANGED <<errors, failed>>
        /\ ret' = ret
     \/ /\ pc' = "md_stop"
        /\ errors' = errors + LogE(1)
        /\ failed' = failed \cup {"midi"}
        /\ ret' = "init_audio"
  /\ UNCHANGED <<mergeVars, cfg, warnings, deinits, audioVars, midiVars, threadVars, frees>>
  /\ UNCHANGED <<devicesPresent, pa_calls, sets, nread, midi_cfg, owned, held>>

\* output selection and MIDI_TRY(Pm_OpenOutput(&midi_out, __midi_out_id, ...))
MidiInitOpenOut ==
  /\ pc = "mi_out"
  /\ IF HasFlag(cfg.flags, DISABLE_MIDI_OUT)
       THEN /\ pc' = "init_audio"
            /\ UNCHANGED <<midi_out, midi_ids, midi_dev, warnings, ret, errors, failed>>
       ELSE LET id == MidiDeviceId(cfg.midi_output, FALSE, midi_ids.out)
            IN /\ midi_ids' = [midi_ids EXCEPT !.out = id]
               /\ warnings' = warnings + LogW(MidiDeviceWarnings(cfg.midi_output, FALSE))
               /\ \/ /\ MidiOpenable(id, FALSE)
                     /\ midi_out' = "open"
                     /\ midi_dev' = [midi_dev EXCEPT !.out = id]
                     /\ pc' = "init_audio"
                     /\ UNCHANGED <<errors, failed>>
                     /\ ret' = ret
                  \/ /\ midi_out' = "NULL"
                     /\ midi_dev' = midi_dev
                     /\ pc' = "md_stop"
                     /\ errors' = errors + LogE(1)
                     /\ failed' = failed \cup {"midi"}
                     /\ ret' = "init_audio"
  /\ UNCHANGED <<mergeVars, cfg, deinits, audioVars, threadVars, frees>>
  /\ UNCHANGED <<pmInit, midi_in, buffers, ptRunning>>
  /\ UNCHANGED <<devicesPresent, pa_calls, sets, nread, midi_cfg, owned, held>>

\* ------------------------------------------------------------- midi_deinit
\* Pt_Stop(): joins the timer thread; compiled in, AUDIO_ENABLED being undefined
Pt_Stop(running) == FALSE

MidiDeinitStop ==
  /\ pc = "md_stop"
  /\ ptRunning => th.timer = "idle"
  /\ ptRunning' = Pt_Stop(ptRunning)
  /\ pc' = "md_free"
  /\ UNCHANGED <<mergeVars, cfg, warnings, ret, deinits, audioVars, threadVars, frees>>
  /\ UNCHANGED <<pmInit, midi_in, midi_out, buffers, midi_ids, midi_dev>>
  /\ UNCHANGED extVars

\* free(midi_in_buffer); free(midi_out_buffer): neither pointer is reset
MidiDeinitFree ==
  /\ pc = "md_free"
  /\ buffers' = [in |-> Free(buffers.in), out |-> Free(buffers.out)]
  /\ frees' = [frees EXCEPT
       !["midi_in_buffer"] = @ + (IF buffers.in = "NULL" THEN 0 ELSE 1),
       !["midi_out_buffer"] = @ + (IF buffers.out = "NULL" THEN 0 ELSE 1)]
  /\ pc' \in Outcomes(buffers.in = "freed" \/ buffers.out = "freed", "md_close")
  /\ UNCHANGED <<mergeVars, cfg, warnings, ret, deinits, audioVars, threadVars>>
  /\ UNCHANGED <<pmInit, midi_in, midi_out, midi_ids, midi_dev, ptRunning>>
  /\ UNCHANGED extVars

\* config_set_flags(DISABLE_MIDI); Pm_Close(midi_in); Pm_Close(midi_out);
\* Pm_Terminate(); return
MidiDeinitClose ==
  /\ pc = "md_close"
  /\ cfg' = [cfg EXCEPT !.flags = DISABLE_MIDI]
  /\ midi_in' = Pm_Close(midi_in)
  /\ midi_out' = Pm_Close(midi_out)
  /\ pmInit' = FALSE
  /\ pc' \in Outcomes(midi_in = "closed" \/ midi_out = "closed", ret)
  /\ ret' = "none"
  /\ UNCHANGED <<mergeVars, warnings, deinits, audioVars, threadVars, frees>>
  /\ UNCHANGED <<buffers, midi_ids, midi_dev, ptRunning>>
  /\ errors' = errors + LogE((IF midi_in = "open" THEN 0 ELSE 1) + (IF midi_out = "open" THEN 0 ELSE 1))
  /\ UNCHANGED <<devicesPresent, pa_calls, sets, failed, nread, midi_cfg, owned, held>>

\* -------------------------------------------------------------- audio_init
\* TRY(Pa_Initialize()); cfg = get_config()
AudioInitStart ==
  /\ pc = "init_audio"
  /\ cfg.audio_callback
  /\ \/ /\ paInit' = TRUE
        /\ pc' = "ai_select"
        /\ UNCHANGED <<errors, failed>>
        /\ ret' = ret
     \/ /\ paInit' = paInit
        /\ pc' = "ad_stop"
        /\ errors' = errors + LogE(1)
        /\ failed' = failed \cup {"audio"}
        /\ ret' = "init_done"
  /\ UNCHANGED <<mergeVars, cfg, warnings, deinits, midiVars, threadVars, frees>>
  /\ UNCHANGED <<stream, audio_ids, stream_params>>
  /\ UNCHANGED <<devicesPresent, pa_calls, sets, nread, midi_cfg, owned, held>>

\* input side: device selection, Pa_GetDeviceInfo(__audio_in_id) and
\* stream_configure, which reads in_device_info->defaultLowInputLatency; the
\* device info of an id that names no device is a null pointer
AudioInitSelectIn ==
  /\ pc = "ai_select"
  /\ LET in == AudioDeviceId(cfg.audio_input, TRUE, cfg, audio_ids.in)
     IN /\ audio_ids' = [audio_ids EXCEPT !.in = in]
        /\ warnings' = warnings + LogW(AudioDeviceWarnings(cfg.audio_input, TRUE, cfg))
        /\ IF HasDeviceInfo(in)
             THEN /\ stream_params' = [stream_params EXCEPT !.in = in]
                  /\ pc' = "ai_select_out"
             ELSE /\ stream_params' = stream_params
                  /\ pc' = "crashed"
  /\ UNCHANGED <<mergeVars, cfg, ret, deinits, midiVars, threadVars, frees>>
  /\ UNCHANGED <<paInit, stream>>
  /\ UNCHANGED extVars

\* output side, likewise, with out_device_info->defaultLowOutputLatency
AudioInitSelectOut ==
  /\ pc = "ai_select_out"
  /\ LET out == AudioDeviceId(cfg.audio_output, FALSE, cfg, audio_ids.out)
     IN /\ audio_ids' = [audio_ids EXCEPT !.out = out]
        /\ warnings' = warnings + LogW(AudioDeviceWarnings(cfg.audio_output, FALSE, cfg))
        /\ IF HasDeviceInfo(out)
             THEN /\ stream_params' = [stream_params EXCEPT !.out = out]
                  /\ pc' = "ai_open"
             ELSE /\ stream_params' = stream_params
                  /\ pc' = "crashed"
  /\ UNCHANGED <<mergeVars, cfg, ret, deinits, midiVars, threadVars, frees>>
  /\ UNCHANGED <<paInit, stream>>
  /\ UNCHANGED extVars

\* TRY(Pa_OpenStream(&stream, &input_parameters, &output_parameters, ...))
AudioInitOpen ==
  /\ pc = "ai_open"
  /\ \/ /\ stream' = "open"
        /\ pc' = "ai_start"
        /\ UNCHANGED <<errors, failed>>
        /\ ret' = ret
     \/ /\ stream' = stream
        /\ pc' = "ad_stop"
        /\ errors' = errors + LogE(1)
        /\ failed' = failed \cup {"audio"}
        /\ ret' = "init_done"
  /\ UNCHANGED <<mergeVars, cfg, warnings, deinits, midiVars, threadVars, frees>>
  /\ UNCHANGED <<paInit, audio_ids, stream_params>>
  /\ UNCHANGED <<devicesPresent, pa_calls, sets, nread, midi_cfg, owned, held>>

\* TRY(Pa_StartStream(stream))
AudioInitStartStream ==
  /\ pc = "ai_start"
  /\ \/ /\ stream' = "running"
        /\ pc' = "init_done"
        /\ UNCHANGED <<errors, failed>>
        /\ ret' = ret
     \/ /\ stream' = stream
        /\ pc' = "ad_stop"
        /\ errors' = errors + LogE(1)
        /\ failed' = failed \cup {"audio"}
        /\ ret' = "init_done"
  /\ UNCHANGED <<mergeVars, cfg, warnings, deinits, midiVars, threadVars, frees>>
  /\ UNCHANGED <<paInit, audio_ids, stream_params>>
  /\ UNCHANGED <<devicesPresent, pa_calls, sets, nread, midi_cfg, owned, held>>

\* ------------------------------------------------------------ audio_deinit
\* PortAudio refuses a stream pointer while it is not initialised, and a null
\* one; it reads through any other pointer
StreamValid == paInit /\ stream \in {"open", "running"}
StreamDangling == paInit /\ stream = "closed"

\* an audio_deinit whose first step leaves the stream as it is
AudioDeinitStop_skipped ==
  /\ pc = "ad_stop"
  /\ pc' = "ad_close"
  /\ UNCHANGED <<mergeVars, cfg, warnings, ret, deinits, audioVars, midiVars, threadVars, frees>>
  /\ UNCHANGED extVars

\* no native teardown operation invoked yet
NoCalls == [stop |-> 0, close |-> 0, term |-> 0]

\* PRINT_ERROR(x): err = (x); if (err != paNoError) log_e("%s", Pa_GetErrorText(x));
\* log_e expands to `if (get_log_level() > 0) log_format(...)`, so x is
\* evaluated again as the argument of Pa_GetErrorText when the message prints.
\* The result is the number of times x is evaluated.
PRINT_ERROR(ok) == IF ok THEN 1 ELSE 1 + LogE(1)

\* PRINT_ERROR(Pa_StopStream(stream)): returns once no callback is executing
AudioDeinitStop ==
  /\ pc = "ad_stop"
  /\ (paInit /\ stream = "running") => th.audio = "idle"
  /\ stream' = IF paInit /\ stream = "running" THEN "open" ELSE stream
  /\ pc' \in Outcomes(StreamDangling, "ad_close")
  /\ UNCHANGED <<mergeVars, cfg, warnings, ret, deinits, midiVars, threadVars, frees>>
  /\ UNCHANGED <<paInit, audio_ids, stream_params>>
  /\ errors' = errors + LogE(IF paInit /\ stream = "running" THEN 0 ELSE 1)
  /\ UNCHANGED <<devicesPresent, sets, failed, nread, midi_cfg, owned, held>>
  /\ pa_calls' = [NoCalls EXCEPT !.stop = PRINT_ERROR(paInit /\ stream = "running")]

\* PRINT_ERROR(Pa_CloseStream(stream)): stream is not reset
AudioDeinitClose ==
  /\ pc = "ad_close"
  /\ StreamValid => th.audio = "idle"
  /\ stream' = IF StreamValid THEN "closed" ELSE stream
  /\ pc' \in Outcomes(StreamDangling, "ad_term")
  /\ UNCHANGED <<mergeVars, cfg, warnings, ret, deinits, midiVars, threadVars, frees>>
  /\ UNCHANGED <<paInit, audio_ids, stream_params>>
  /\ errors' = errors + LogE(IF StreamValid THEN 0 ELSE 1)
  /\ UNCHANGED <<devicesPresent, sets, failed, nread, midi_cfg, owned, held>>
  /\ pa_calls' = [pa_calls EXCEPT !.close = PRINT_ERROR(StreamValid)]

\* PRINT_ERROR(Pa_Terminate()); return
AudioDeinitTerminate ==
  /\ pc = "ad_term"
  /\ StreamValid => th.audio = "idle"
  /\ stream' = IF StreamValid THEN "closed" ELSE stream
  /\ paInit' = FALSE
  /\ pc' = ret
  /\ ret' = "none"
  /\ UNCHANGED <<mergeVars, cfg, warnings, deinits, midiVars, threadVars, frees>>
  /\ UNCHANGED <<audio_ids, stream_params>>
  /\ errors' = errors + LogE(IF paInit THEN 0 ELSE 1)
  /\ UNCHANGED <<devicesPresent, sets, failed, nread, midi_cfg, owned, held>>
  /\ pa_calls' = [pa_calls EXCEPT !.term = PRINT_ERROR(paInit)]

\* ----------------------------------------------------------- config_deinit
MaxDeinit == 2

\* a config_deinit that tears the MIDI engine down first
ConfigDeinit_midi_first ==
  /\ pc \in {"running", "deinited"}
  /\ deinits < MaxDeinit
  /\ deinits' = deinits + 1
  /\ pc' = "md_stop"
  /\ ret' = "cd_free"
  /\ UNCHANGED <<mergeVars, cfg, warnings, audioVars, midiVars, threadVars, frees>>
  /\ UNCHANGED extVars

\* the host calls config_deinit; audio_deinit() comes first
ConfigDeinit ==
  /\ pc \in {"running", "deinited"}
  /\ deinits < MaxDeinit
  /\ deinits' = deinits + 1
  /\ pc' = "ad_stop"
  /\ ret' = "cd_midi"
  /\ UNCHANGED <<mergeVars, cfg, warnings, audioVars, midiVars, threadVars, frees>>
  /\ UNCHANGED extVars

\* midi_deinit() comes second
ConfigDeinitMidi ==
  /\ pc = "cd_midi"
  /\ pc' = "md_stop"
  /\ ret' = "cd_free"
  /\ UNCHANGED <<mergeVars, cfg, warnings, deinits, audioVars, midiVars, threadVars, frees>>
  /\ UNCHANGED extVars

\* the three frees guarded by a null test; no field is reset.  user_data
\* is the host's object (a local of main in examples/record.c), which the
\* allocator never handed out
Held(p) == p # NULL

\* the text fields config_deinit frees
FreedTexts == {"midi_input", "midi_output"}

ConfigDeinitFree ==
  /\ pc = "cd_free"
  /\ frees' = [frees EXCEPT
       !["midi_input"] = @ + (IF Held(cfg.midi_input) THEN 1 ELSE 0),
       !["midi_output"] = @ + (IF Held(cfg.midi_output) THEN 1 ELSE 0),
       !["user_data"] = @ + (IF Held(cfg.user_data) THEN 1 ELSE 0)]
  /\ owned' = [f \in TextFields |->
                 IF f \in FreedTexts /\ held[f] = "owned" THEN owned[f] - 1 ELSE owned[f]]
  /\ held' = [f \in TextFields |->
                IF f \in FreedTexts /\ Held(cfg[f]) THEN "freed" ELSE held[f]]
  /\ pc' \in Outcomes(\/ \E f \in FreedTexts : Held(cfg[f]) /\ held[f] # "owned"
                      \/ Held(cfg.user_data),
                      "deinited")
  /\ UNCHANGED <<mergeVars, cfg, warnings, ret, deinits, audioVars, midiVars, threadVars>>
  /\ UNCHANGED <<devicesPresent, pa_calls, sets, errors, failed, nread, midi_cfg>>

\* ------------------------------------------------------------ typed setters
MaxSets == 1

\* the host calls a setter only before config_init or after config_deinit
SetterCallable ==
  /\ pc \in {"start", "deinited"}
  /\ sets.n < MaxSets

\* the setter calls a host makes: generic ones, and the two MIDI text ones
GenericCalls ==
  {[field |-> "audio_input", val |-> TDev],
   [field |-> "in_channel_count", val |-> 2]}

\* the weak generic setter: __cfg.field = field
ConfigSet(f, v) ==
  /\ SetterCallable
  /\ f \notin FreedTexts
  /\ cfg' = [cfg EXCEPT ![f] = v]
  /\ held' = IF f \in TextFields THEN [held EXCEPT ![f] = "caller"] ELSE held
  /\ sets' = [n |-> sets.n + 1, field |-> f, val |-> v]
  /\ UNCHANGED <<mergeVars, pc, warnings, engVars>>
  /\ UNCHANGED <<devicesPresent, pa_calls, errors, failed, nread, midi_cfg, owned>>

\* the strong setters of the MIDI engine: free(cfg->field);
\* cfg->field = strdup(field), through the engine's own cfg pointer, which is
\* NULL until midi_init has run
ConfigSetMidiText(f, v) ==
  /\ SetterCallable
  /\ sets' = [n |-> sets.n + 1, field |-> f, val |-> v]
  /\ IF midi_cfg = "NULL"
       THEN /\ pc' = "crashed"
            /\ UNCHANGED <<cfg, owned, held, frees>>
       ELSE /\ frees' = [frees EXCEPT ![f] = @ + (IF Held(cfg[f]) THEN 1 ELSE 0)]
            /\ owned' = [owned EXCEPT ![f] = IF held[f] = "owned" THEN @ ELSE @ + 1]
            /\ held' = [held EXCEPT ![f] = "owned"]
            /\ cfg' = [cfg EXCEPT ![f] = v]
            /\ pc' \in Outcomes(held[f] = "freed", pc)
  /\ UNCHANGED <<mergeVars, warnings, ret, deinits, audioVars, midiVars, threadVars>>
  /\ UNCHANGED <<devicesPresent, pa_calls, errors, failed, nread, midi_cfg>>

config_set_midi_input(v) == ConfigSetMidiText("midi_input", v)

config_set_midi_output(v) == ConfigSetMidiText("midi_output", v)

\* ------------------------------------------------------------- callbacks
Threads == {"audio", "timer"}

\* __audio_callback: the MIDI tick if a MIDI routine is registered, then the
\* audio routine if one is registered
AudioCallbackEntry_audio_first(c) ==
  IF c.audio_callback THEN "a_user" ELSE IF c.midi_callback THEN "m_read" ELSE "idle"

AudioCallbackEntry(c) ==
  IF c.midi_callback THEN "m_read" ELSE IF c.audio_callback THEN "a_user" ELSE "idle"

\* where a thread goes once __midi_callback returns
TickReturn(t, c) ==
  IF t = "timer" THEN "idle" ELSE IF c.audio_callback THEN "a_user" ELSE "idle"

\* the audio runtime calls __audio_callback for one block
AudioCallback ==
  /\ pc # "crashed"
  /\ stream = "running"
  /\ th.audio = "idle"
  /\ th' = [th EXCEPT !.audio = AudioCallbackEntry(cfg)]
  /\ blockTick' = FALSE
  /\ UNCHANGED <<mergeVars, pc, cfg, warnings, ret, deinits, audioVars, midiVars, frees>>
  /\ UNCHANGED <<inlen, outlen>>
  /\ UNCHANGED extVars

\* the timer calls __midi_callback, which returns at once without a routine
TimerCallback ==
  /\ pc # "crashed"
  /\ ptRunning
  /\ th.timer = "idle"
  /\ cfg.midi_callback
  /\ th' = [th EXCEPT !.timer = "m_read"]
  /\ UNCHANGED <<mergeVars, pc, cfg, warnings, ret, deinits, audioVars, midiVars, frees>>
  /\ UNCHANGED <<inlen, outlen, blockTick>>
  /\ UNCHANGED extVars

\* in_queue_length = Pm_Read(midi_in, midi_in_buffer, cfg->midi_buffer_size)
TickRead(t) ==
  /\ pc # "crashed"
  /\ th[t] = "m_read"
  /\ \/ /\ midi_in = "open"
        /\ \E n \in {0, 1} :
             /\ inlen' = [inlen EXCEPT ![t] = n]
             /\ nread' = [nread EXCEPT ![t] = n]
        /\ pc' = pc
     \/ /\ midi_in # "open"
        /\ inlen' = [inlen EXCEPT ![t] = pmBadPtr]
        /\ nread' = [nread EXCEPT ![t] = 0]
        /\ pc' \in Outcomes(midi_in = "closed", pc)
  /\ th' = [th EXCEPT ![t] = "m_user"]
  /\ UNCHANGED <<mergeVars, cfg, warnings, ret, deinits, audioVars, midiVars, frees>>
  /\ UNCHANGED <<outlen, blockTick>>
  /\ UNCHANGED <<devicesPresent, pa_calls, sets, errors, failed, midi_cfg, owned, held>>

\* what a user MIDI routine may return: an error, nothing, one event
UserReturns == {0 - 1, 0, 1}

\* out_queue_length = cfg->midi_callback(midi_in_buffer, midi_out_buffer,
\* in_queue_length, userData): the routine fills what it returns
TickUser(t) ==
  /\ pc # "crashed"
  /\ th[t] = "m_user"
  /\ \E n \in UserReturns :
       /\ outlen' = [outlen EXCEPT ![t] = n]
       /\ th' = [th EXCEPT ![t] = IF n > 0 THEN "m_write" ELSE TickReturn(t, cfg)]
       /\ blockTick' = IF t = "audio" /\ n <= 0 THEN TRUE ELSE blockTick
       /\ pc' \in Outcomes(n > 0 /\ buffers.out # "live", pc)
  /\ UNCHANGED <<mergeVars, cfg, warnings, ret, deinits, audioVars, midiVars, frees>>
  /\ UNCHANGED <<inlen>>
  /\ UNCHANGED extVars

\* Pm_Write(midi_out, midi_out_buffer, out_queue_length); return
TickWrite(t) ==
  /\ pc # "crashed"
  /\ th[t] = "m_write"
  /\ th' = [th EXCEPT ![t] = TickReturn(t, cfg)]
  /\ blockTick' = IF t = "audio" THEN TRUE ELSE blockTick
  /\ pc' \in Outcomes(midi_out = "closed" \/ (midi_out = "open" /\ buffers.out # "live"), pc)
  /\ UNCHANGED <<mergeVars, cfg, warnings, ret, deinits, audioVars, midiVars, frees>>
  /\ UNCHANGED <<inlen, outlen>>
  /\ UNCHANGED extVars

\* cfg->audio_callback(input_buffer, output_buffer, block_size, user_data);
\* return paContinue
AudioUser ==
  /\ pc # "crashed"
  /\ th.audio = "a_user"
  /\ th' = [th EXCEPT !.audio = "idle"]
  /\ UNCHANGED <<mergeVars, pc, cfg, warnings, ret, deinits, audioVars, midiVars, frees>>
  /\ UNCHANGED <<inlen, outlen, blockTick>>
  /\ UNCHANGED extVars

\* ----------------------------------------------------- the merge, alone
InitCommon ==
  /\ pc = "start"
  /\ i = 1
  /\ cl_args = <<>>
  /\ cl_args_num = 0
  /\ config_file = NULL
  /\ ln = 0
  /\ config = ZeroCfg
  /\ cfg = ZeroCfg
  /\ warnings = 0
  /\ fileAssigned = <<>>
  /\ unknownSeen = {}
  /\ ret = "none"
  /\ deinits = 0
  /\ paInit = FALSE
  /\ stream = "NULL"
  /\ audio_ids = [in |-> 0, out |-> 0]
  /\ stream_params = [in |-> 0, out |-> 0]
  /\ pmInit = FALSE
  /\ midi_in = "NULL"
  /\ midi_out = "NULL"
  /\ buffers = [in |-> "NULL", out |-> "NULL"]
  /\ midi_ids = [in |-> 0, out |-> 0]
  /\ midi_dev = [in |-> NoDevice, out |-> NoDevice]
  /\ ptRunning = FALSE
  /\ th = [audio |-> "idle", timer |-> "idle"]
  /\ inlen = [audio |-> 0, timer |-> 0]
  /\ outlen = [audio |-> 0, timer |-> 0]
  /\ blockTick = FALSE
  /\ frees = [o \in HeapObjects |-> 0]
  /\ sets = [n |-> 0, field |-> "none", val |-> NULL]
  /\ errors = 0
  /\ failed = {}
  /\ nread = [audio |-> 0, timer |-> 0]
  /\ midi_cfg = "NULL"
  /\ owned = [f \in TextFields |-> 0]
  /\ held = [f \in TextFields |-> "null"]
  /\ pa_calls = NoCalls

InitConfig ==
  /\ devicesPresent = TRUE
  /\ argv \in SeqsUpTo(CfgTokens, MaxArgs)
  /\ fileOk \in BOOLEAN
  /\ fileLines \in (IF fileOk THEN SeqsUpTo(CfgLines, MaxFileLines) ELSE {<<>>})
  /\ audio_cb = FALSE
  /\ midi_cb = FALSE
  /\ user_data = NULL
  /\ InitCommon

NextConfig ==
  \/ ConfigInitStart
  \/ Argparse
  \/ ReadConfigOpen
  \/ ReadConfigLine
  \/ ReadConfigEnd
  \/ ApplyCliArg
  \/ ConfigCommit
  \/ InitMidiSkip
  \/ InitAudioSkip
  \/ ConfigInitReturn

SpecConfig == InitConfig /\ [][NextConfig]_vars

\* ------------------------------------------------- the whole life cycle
\* One config_init per run, then up to MaxDeinit calls of config_deinit by
\* the host.  Pt_Start and the allocations are taken to succeed; every step
\* under TRY / MIDI_TRY may fail.  An operation on a released object either
\* goes on or ends the process (pc = "crashed").
TFlagsIn == <<"4">>
TCtx == <<"c">>
TFlagsOut == <<"8">>
TFlagsOff == <<"3">>

\* command lines and configuration files of the hosts considered
Hosts ==
  { [argv |-> <<>>, fileOk |-> FALSE, fileLines |-> <<>>],
    [argv |-> <<Tok(2, "flags", TFlagsIn)>>, fileOk |-> FALSE, fileLines |-> <<>>],
    [argv |-> <<Tok(2, "flags", TFlagsOut)>>, fileOk |-> FALSE, fileLines |-> <<>>],
    [argv |-> <<Tok(2, "flags", TFlagsOff)>>, fileOk |-> FALSE, fileLines |-> <<>>],
    [argv |-> <<Tok(2, "audio_input", TDev)>>, fileOk |-> FALSE, fileLines |-> <<>>],
    [argv |-> <<Tok(2, "midi_input", TDev)>>, fileOk |-> FALSE, fileLines |-> <<>>],
    [argv |-> <<Tok(2, "audio_output", TMissing), Tok(2, "midi_input", TMissing)>>,
     fileOk |-> FALSE, fileLines |-> <<>>],
    [argv |-> <<Tok(2, "audio_input", TMissing), Tok(2, "midi_output", TMissing)>>,
     fileOk |-> FALSE, fileLines |-> <<>>],
    [argv |-> <<Tok(2, "audio_input", TMuted), Tok(2, "audio_output", TDev)>>,
     fileOk |-> FALSE, fileLines |-> <<>>],
    [argv |-> <<Tok(2, "config", TPath)>>, fileOk |-> TRUE,
     fileLines |-> <<Line("assign", "midi_output", TDev)>>] }

Init ==
  /\ InitCommon
  /\ \E h \in Hosts :
       /\ argv = h.argv
       /\ fileOk = h.fileOk
       /\ fileLines = h.fileLines
  /\ audio_cb \in BOOLEAN
  /\ midi_cb \in BOOLEAN
  /\ user_data \in {NULL, TCtx}
  /\ devicesPresent \in BOOLEAN

Next ==
  \/ NextConfig
  \/ MidiInitStart
  \/ MidiInitAlloc
  \/ MidiInitOpenIn
  \/ MidiInitFilter
  \/ MidiInitOpenOut
  \/ MidiDeinitStop
  \/ MidiDeinitFree
  \/ MidiDeinitClose
  \/ AudioInitStart
  \/ AudioInitSelectIn
  \/ AudioInitSelectOut
  \/ AudioInitOpen
  \/ AudioInitStartStream
  \/ AudioDeinitStop
  \/ AudioDeinitClose
  \/ AudioDeinitTerminate
  \/ ConfigDeinit
  \/ ConfigDeinitMidi
  \/ ConfigDeinitFree
  \/ \E c \in GenericCalls : ConfigSet(c.field, c.val)
  \/ config_set_midi_input(TDev)
  \/ config_set_midi_output(TDev)
  \/ AudioCallback
  \/ TimerCallback
  \/ \E t \in Threads : TickRead(t)
  \/ \E t \in Threads : TickUser(t)
  \/ \E t \in Threads : TickWrite(t)
  \/ AudioUser

Spec == Init /\ [][Next]_vars


\* =================================================================== claims

\* the values a source gave to field f
ValuesFor(assigned, f) ==
  {assigned[k].val : k \in {n \in 1..Len(assigned) : assigned[n].arg = f}}

Convert(f, val) == ParseString(Descriptor(f).type, val)

\* C1: precedence law.  When config_init has returned, every field holds a
\* value the command line gave it if the command line assigned it, else a
\* value the config file gave it if the file assigned it, else its default.
C1_PrecedenceLaw ==
  pc = "running" =>
    \A f \in FieldNames :
      LET cli == ValuesFor(cl_args, f)
          fil == ValuesFor(fileAssigned, f)
      IN IF cli # {} THEN \E v \in cli : cfg[f] = Convert(f, v)
         ELSE IF fil # {} THEN \E v \in fil : cfg[f] = Convert(f, v)
         ELSE cfg[f] = Descriptor(f).default

\* file `sample_rate: 48000` and `--sample_rate=96000` resolve to 96000.0
C1_Witness ==
  /\ pc = "running"
  /\ T48000 \in ValuesFor(fileAssigned, "sample_rate")
  /\ ValuesFor(cl_args, "sample_rate") = {T96000}
  /\ cfg.sample_rate = Dbl(96000, 0)

\* the assignment the next step of the merge hands to parse_val, if any
FileMergePending ==
  pc = "readfile" /\ ln < Len(fileLines) /\ fileLines[ln + 1].kind = "assign"
CliMergePending == pc = "applycli" /\ cl_args_num > 0
MergePending == FileMergePending \/ CliMergePending
PendingAssign ==
  IF FileMergePending
  THEN [arg |-> fileLines[ln + 1].key, val |-> fileLines[ln + 1].val]
  ELSE cl_args[cl_args_num]

\* a text in which no number starts
NoNumber(val) ==
  LET b == 1 + Blanks(val, 1)
      d == IF b <= Len(val) /\ val[b] \in {"-", "+"} THEN b + 1 ELSE b
  IN DigitRun(val, d) = 0 /\ ~(d <= Len(val) /\ val[d] = "." /\ DigitRun(val, d + 1) > 0)

UnparseablePending ==
  /\ MergePending
  /\ PendingAssign.arg \in FieldNames
  /\ ~IS_TEXT_TYPE(Descriptor(PendingAssign.arg).type)
  /\ NoNumber(PendingAssign.val)

\* C7: merging an unparseable numeric text leaves the field at the value it
\* had before, and the merge goes on with the next assignment.
C7_UnparseableKeepsValue ==
  [][UnparseablePending =>
       /\ config'[PendingAssign.arg] = config[PendingAssign.arg]
       /\ pc' = pc]_vars

\* C8: merging a text that fails to parse for the field's type sets the
\* field to its descriptor default and emits a warning, without a crash.
C8_UnparseableTakesDefault ==
  [][UnparseablePending =>
       /\ config'[PendingAssign.arg] = Descriptor(PendingAssign.arg).default
       /\ warnings' = warnings + 1
       /\ pc' = pc]_vars

\* an (identifier, value) pair the next step of argparse lexes from argv[i]
CliLexPending ==
  /\ pc = "argparse" /\ i <= Len(argv) /\ argv[i].dashes >= 2
  /\ IF argv[i].val # NoVal THEN ~StartsWithDash(argv[i].val)
     ELSE i + 1 <= Len(argv) /\ argv[i + 1].dashes = 0

\* C9: an assignment with an unknown identifier, from the file or from the
\* command line, emits one warning and changes no field; resolution goes on.
C9_UnknownIgnored ==
  [][(\/ FileMergePending /\ PendingAssign.arg \notin FieldNames
      \/ CliLexPending /\ argv[i].key \notin FieldNames \cup {"config"})
     => /\ config' = config
        /\ cfg' = cfg
        /\ cl_args' = cl_args
        /\ config_file' = config_file
        /\ warnings' = warnings + 1
        /\ pc' = pc]_vars

\* both sources gave only unknown identifiers: two warnings, all defaults
C9_Witness ==
  /\ pc = "running"
  /\ unknownSeen = {"file", "cli"}
  /\ warnings = 2
  /\ \A f \in FieldNames : cfg[f] = Descriptor(f).default

\* --------------------------------------------- claims on the life cycle
InTick(t) == th[t] \in {"m_read", "m_user", "m_write"}

\* C2: in an audio block with both routines registered, the MIDI tick of that
\* block (read, MIDI routine, write) has completed by the time the audio
\* routine of that block is invoked.
C2_TickBeforeAudio ==
  (th.audio = "a_user" /\ cfg.midi_callback /\ cfg.audio_callback) => blockTick

\* a block whose tick read, ran the MIDI routine and wrote, now in the audio routine
C2_Witness ==
  /\ th.audio = "a_user"
  /\ cfg.midi_callback
  /\ cfg.audio_callback
  /\ blockTick
  /\ outlen.audio = 1

\* no tick is in progress on both clocks, and the two clocks never run together
OneClock ==
  /\ ~(ptRunning /\ stream = "running")
  /\ ~(InTick("timer") /\ InTick("audio"))

\* C3, as stated: after config_init the timer runs if and only if a MIDI
\* routine is registered and no audio routine is, and no tick is serviced by
\* both clocks.
C3_TimerIffMidiOnly ==
  /\ pc = "running" => (ptRunning <=> (cfg.midi_callback /\ ~cfg.audio_callback))
  /\ OneClock

\* C3, amended: after config_init the timer runs if and only if a MIDI routine
\* is registered, no audio routine is, and midi_init met no native failure
\* (PortMidi is still initialised); no tick is serviced by both clocks.
C3_TimerIffMidiOnlyAndInitialised ==
  /\ pc = "running" =>
       (ptRunning <=> (cfg.midi_callback /\ ~cfg.audio_callback /\ pmInit))
  /\ OneClock

\* config_init has returned to a MIDI-only host and the timer services a tick
C3_Witness ==
  /\ pc = "running"
  /\ cfg.midi_callback
  /\ ~cfg.audio_callback
  /\ ptRunning
  /\ th.timer = "m_user"

\* C4: a second config_deinit (audio_deinit, then midi_deinit, then the
\* frees) does not crash and frees nothing: each of its steps is a no-op.
C4_SecondDeinitNoop ==
  [][deinits >= 2 => (frees' = frees /\ pc' # "crashed")]_vars

\* C5: with config_deinit called at most once, each MIDI event buffer is freed
\* at most once, exactly once when config_deinit has returned, and no MIDI
\* tick runs on a freed buffer.
C5_BuffersFreedOnce ==
  deinits <= 1 =>
    /\ frees["midi_in_buffer"] <= 1
    /\ frees["midi_out_buffer"] <= 1
    /\ pc = "deinited" =>
         /\ buffers.in # "NULL" => frees["midi_in_buffer"] = 1
         /\ buffers.out # "NULL" => frees["midi_out_buffer"] = 1
    /\ \A t \in Threads : InTick(t) => (buffers.in # "freed" /\ buffers.out # "freed")

\* a step in which a user routine is invoked
InvokesUserRoutine ==
  \/ th.audio = "a_user" /\ th'.audio # "a_user"
  \/ \E t \in Threads : th[t] = "m_user" /\ th'[t] # "m_user"

\* a step in which the native runtime enters a callback
CallbackBegins == \E t \in Threads : th[t] = "idle" /\ th'[t] # "idle"

\* config_deinit has returned at least once
AfterDeinit == pc = "deinited" \/ deinits >= 2

\* C6: once config_deinit has returned no user routine is invoked, and once a
\* MIDI buffer is freed the native runtime enters no callback any more.
C6_ExitContract ==
  [][/\ AfterDeinit => ~InvokesUserRoutine
     /\ (buffers.in = "freed" \/ buffers.out = "freed") => ~CallbackBegins]_vars

\* C10: when no name is requested, the device chosen and opened is the system
\* default of that direction: audio input, audio output, MIDI input, MIDI output.
C10_AbsentNameDefault ==
  /\ (stream # "NULL" /\ cfg.audio_input = NULL) =>
       (audio_ids.in = Pa_GetDefaultInputDevice /\ stream_params.in = Pa_GetDefaultInputDevice)
  /\ (stream # "NULL" /\ cfg.audio_output = NULL) =>
       (audio_ids.out = Pa_GetDefaultOutputDevice /\ stream_params.out = Pa_GetDefaultOutputDevice)
  /\ (midi_in # "NULL" /\ cfg.midi_input = NULL) =>
       (midi_ids.in = Pm_GetDefaultInputDeviceID /\ midi_dev.in = Pm_GetDefaultInputDeviceID)
  /\ (midi_out # "NULL" /\ cfg.midi_output = NULL) =>
       (midi_ids.out = Pm_GetDefaultOutputDeviceID /\ midi_dev.out = Pm_GetDefaultOutputDeviceID)

\* all four streams are open and no name was requested
C10_Witness ==
  /\ stream = "running"
  /\ midi_in = "open"
  /\ midi_out = "open"
  /\ cfg.audio_input = NULL
  /\ cfg.audio_output = NULL
  /\ cfg.midi_input = NULL
  /\ cfg.midi_output = NULL

\* --------------------------------------------- claims on device resolution
\* the requested name is that of no enumerated device
AudioMissing(name) == name # NULL /\ AudioMatches(name) = {}
MidiMissing(name) ==
  name # NULL /\ MidiMatches(name, TRUE) = {} /\ MidiMatches(name, FALSE) = {}

\* C11: resolving a requested name that matches no enumerated device yields
\* the system default of that direction and emits exactly one warning (the
\* log level admitting warnings), for audio and MIDI, input and output.
\* pc' # pc singles out the step of the initialising thread.
C11_MissingNameDefault ==
  [][/\ (pc = "ai_select" /\ pc' # pc /\ cfg.log_level > 1 /\ AudioMissing(cfg.audio_input)) =>
          (audio_ids'.in = Pa_GetDefaultInputDevice /\ warnings' = warnings + 1)
     /\ (pc = "ai_select_out" /\ pc' # pc /\ cfg.log_level > 1 /\ AudioMissing(cfg.audio_output)) =>
          (audio_ids'.out = Pa_GetDefaultOutputDevice /\ warnings' = warnings + 1)
     /\ (pc = "mi_in" /\ pc' # pc /\ cfg.log_level > 1 /\ ~HasFlag(cfg.flags, DISABLE_MIDI_IN)
           /\ MidiMissing(cfg.midi_input)) =>
          (midi_ids'.in = Pm_GetDefaultInputDeviceID /\ warnings' = warnings + 1)
     /\ (pc = "mi_out" /\ pc' # pc /\ cfg.log_level > 1 /\ ~HasFlag(cfg.flags, DISABLE_MIDI_OUT)
           /\ MidiMissing(cfg.midi_output)) =>
          (midi_ids'.out = Pm_GetDefaultOutputDeviceID /\ warnings' = warnings + 1)]_vars

\* an unknown audio output and an unknown MIDI input were requested: both
\* streams are open on the defaults and two warnings were emitted
C11_Witness ==
  /\ devicesPresent
  /\ AudioMissing(cfg.audio_output)
  /\ MidiMissing(cfg.midi_input)
  /\ stream = "open"
  /\ midi_in = "open"
  /\ stream_params.out = Pa_GetDefaultOutputDevice
  /\ midi_dev.in = Pm_GetDefaultInputDeviceID
  /\ warnings = 2

\* the first MIDI device of that direction and name
MidiFirstMatch(name, input) ==
  CHOOSE k \in MidiMatches(name, input) : \A j \in MidiMatches(name, input) : k <= j

UnderProvisioned(name, input) ==
  /\ name # NULL
  /\ AudioMatches(name) # {}
  /\ LET info == AudioDevices[AudioFirstMatch(name) + 1]
     IN IF input THEN info.maxInputChannels < cfg.in_channel_count
                 ELSE info.maxOutputChannels < cfg.out_channel_count

\* C13: when the requested audio name is that of a device with fewer channels
\* than configured for the direction, a warning is logged (the log level
\* admitting warnings) and the device selected is the system default.
C13_UnderProvisionedDefault ==
  [][/\ (pc = "ai_select" /\ pc' # pc /\ cfg.log_level > 1
           /\ UnderProvisioned(cfg.audio_input, TRUE)) =>
          (audio_ids'.in = Pa_GetDefaultInputDevice /\ warnings' > warnings)
     /\ (pc = "ai_select_out" /\ pc' # pc /\ cfg.log_level > 1
           /\ UnderProvisioned(cfg.audio_output, FALSE)) =>
          (audio_ids'.out = Pa_GetDefaultOutputDevice /\ warnings' > warnings)]_vars

\* both requested devices were too small: the stream is open on the defaults
C13_Witness ==
  /\ UnderProvisioned(cfg.audio_input, TRUE)
  /\ UnderProvisioned(cfg.audio_output, FALSE)
  /\ stream = "open"
  /\ stream_params = [in |-> Pa_GetDefaultInputDevice, out |-> Pa_GetDefaultOutputDevice]
  /\ warnings = 4

\* C14: device selection and the construction of the stream parameters never
\* fault, also when there is no default device of a direction.
C14_ResolutionNeverFaults ==
  [][(pc \in {"ai_select", "ai_select_out"} /\ pc' # pc) => pc' # "crashed"]_vars

\* ------------------------------------------------------------------ C15
MidiInitSteps == {"mi_alloc", "mi_in", "mi_filter", "mi_out"}
AudioInitSteps == {"ai_select", "ai_select_out", "ai_open", "ai_start"}
MidiTeardownSteps == {"md_stop", "md_free", "md_close"}
AudioTeardownSteps == {"ad_stop", "ad_close", "ad_term"}

\* what a failed initialization leaves behind once its teardown has run
TornDown ==
  /\ ("midi" \in failed /\ pc \notin MidiTeardownSteps) =>
       /\ ~pmInit /\ ~ptRunning
       /\ midi_in # "open" /\ midi_out # "open"
       /\ buffers.in # "live" /\ buffers.out # "live"
  /\ ("audio" \in failed /\ pc \notin AudioTeardownSteps) =>
       /\ ~paInit
       /\ stream \notin {"open", "running"}

\* C15: when a native call of an engine's initialization fails, the error is
\* logged, the remaining initialization steps of that engine are skipped, and
\* the engine's teardown runs and leaves nothing of the engine acquired.
C15_FailedInitTornDown ==
  [][/\ TornDown'
     /\ (failed' # failed /\ cfg.log_level > 0) => errors' = errors + 1
     /\ ("midi" \in failed' \ failed) => pc' = "md_stop"
     /\ ("audio" \in failed' \ failed) => pc' = "ad_stop"
     /\ "midi" \in failed' => pc' \notin MidiInitSteps
     /\ "audio" \in failed' => pc' \notin AudioInitSteps]_vars

C15_Witness ==
  /\ failed = {"midi", "audio"}
  /\ pc = "running"
  /\ errors >= 2
  /\ frees.midi_in_buffer = 1 /\ midi_in = "closed"
  /\ stream = "closed"

\* ------------------------------------------------------------------ C16
\* C16: teardown is best-effort: each step of audio_deinit and of midi_deinit
\* hands on to the next one whatever its outcome, and config_deinit goes on
\* to midi_deinit after audio_deinit.
C16_TeardownBestEffort ==
  [][(pc' # pc /\ th' = th) =>
       /\ pc = "ad_stop" => pc' = "ad_close"
       /\ pc = "ad_close" => pc' = "ad_term"
       /\ pc = "ad_term" => pc' = ret
       /\ pc = "cd_midi" => pc' = "md_stop"
       /\ pc = "md_stop" => pc' = "md_free"
       /\ pc = "md_free" => pc' = "md_close"
       /\ pc = "md_close" => pc' = ret]_vars

\* ------------------------------------------------------------------ C17
\* C17: a tick runs only with a routine registered, hands the routine the
\* number of events the read stored, and writes only a positive count.
C17_TickContract ==
  \A t \in Threads :
    /\ th[t] \in {"m_read", "m_user", "m_write"} => cfg.midi_callback
    /\ th[t] = "m_user" => inlen[t] = nread[t]
    /\ th[t] = "m_write" => outlen[t] > 0

\* ------------------------------------------------------------------ C18
\* C18: a typed setter called before any engine was initialised completes
\* without fault and leaves its argument in the field it names.
C18_SetterBeforeInit ==
  [][(sets' # sets /\ pc = "start") =>
       /\ pc' # "crashed"
       /\ cfg'[sets'.field] = sets'.val]_vars

\* ------------------------------------------------------------------ C19
\* C19: a completed setter call changes only the field it names, and for a
\* text field the store then owns exactly one live copy of the new text.
C19_SetterOwnsText ==
  [][(sets' # sets /\ pc' # "crashed") =>
       /\ \A g \in ConfigKeys \ {sets'.field} : cfg'[g] = cfg[g]
       /\ sets'.field \in TextFields =>
            /\ held'[sets'.field] = "owned"
            /\ owned'[sets'.field] = 1]_vars

\* ------------------------------------------------------------------ C20
\* C20: when the first config_deinit has returned, no text copy the merge
\* made is still allocated, and no text field was freed more than once.
C20_TextsReleasedOnce ==
  (pc = "deinited" /\ deinits = 1 /\ sets.n = 0) =>
    \A f \in TextFields :
      /\ owned[f] = 0
      /\ f \in FreedTexts => frees[f] <= 1

\* ------------------------------------------------------------------ C21
\* C21: the core stores the host's context and hands it to the routines; it
\* never changes the stored reference after config_init and never releases
\* the object.
C21_UserDataOpaque ==
  /\ frees["user_data"] = 0
  /\ pc \in {"running", "deinited"} => cfg.user_data = user_data

\* ------------------------------------------------------------------ C22
\* C22: while the stream is running every step of a block callback leads on
\* to its `return paContinue`: no step of it faults, and none stops or closes
\* the stream.
C22_CallbackContinues ==
  [][(stream = "running" /\ th'.audio # th.audio) =>
       /\ pc' = pc
       /\ stream' = "running"]_vars

\* ------------------------------------------------------------------ C23
\* C23: the command-line recognizer stores an identifier exactly when it is
\* a field of CONFIG, which the merge step then accepts without a warning
\* and which has a default and a struct field; `config` is the only other
\* identifier it accepts, and it assigns no field.
C23_DescriptorsClosed ==
  [][CliLexPending =>
       LET k == argv[i].key
       IN /\ (cl_args' # cl_args) <=> (k \in FieldNames)
          /\ (cl_args' # cl_args) =>
               /\ parse_val_warns(k) = 0
               /\ k \in DOMAIN Defaults
               /\ k \in DOMAIN cfg
          /\ (config_file' # config_file) => (k = "config")
          /\ k = "config" =>
               /\ config_file' # NULL
               /\ cl_args' = cl_args /\ config' = config /\ cfg' = cfg
          /\ k \notin FieldNames \cup {"config"} => warnings' = warnings + 1]_vars

\* the command line named the file, a field and nothing unknown
C23_Witness ==
  /\ pc = "running"
  /\ config_file # NULL
  /\ Len(cl_args) = 1 /\ cl_args[1].arg = "sample_rate"
  /\ warnings = 0

\* ------------------------------------------------------------------ C24
\* C24: config_init starts the MIDI engine and then the audio engine;
\* config_deinit begins with the audio teardown and reaches the MIDI
\* teardown, where the event buffers are released, only when the stream has
\* been stopped and the audio subsystem terminated.
C24_ReverseUnwind ==
  [][/\ (pc = "init_midi" /\ pc' # pc) => ~paInit /\ stream = "NULL"
     /\ (deinits' # deinits) => pc' = "ad_stop"
     /\ (deinits >= 1 /\ pc \in MidiTeardownSteps) =>
          ~paInit /\ stream # "running" /\ th.audio = "idle"]_vars

\* both engines were up; config_deinit is about to release the buffers
C24_Witness ==
  /\ deinits = 1 /\ pc = "md_free"
  /\ buffers.in = "live" /\ midi_in = "open" /\ midi_out = "open"
  /\ stream = "closed" /\ failed = {}

\* ------------------------------------------------------------------ C25
\* C25: a line of the config file that is no `key: value` assignment (a
\* comment, or a line without a value) changes no field and does not end the
\* reading: the loop goes on to the next line.
C25_NonAssignmentSkipped ==
  [][(pc = "readfile" /\ ln < Len(fileLines) /\ fileLines[ln + 1].kind # "assign")
     => /\ config' = config
        /\ cfg' = cfg
        /\ ln' = ln + 1
        /\ pc' = "readfile"]_vars

\* ------------------------------------------------------------------ C26
\* C26: a turn of argparse never faults and never moves past the end of the
\* argument vector; on a final `--key` without a value it warns, stores
\* nothing and ends the parsing.
C26_ArgparseInBounds ==
  [][(pc = "argparse" /\ i <= Len(argv)) =>
       /\ pc' = "argparse"
       /\ i' <= Len(argv) + 1
       /\ (i = Len(argv) /\ argv[i].dashes >= 2 /\ argv[i].val = NoVal) =>
            /\ i' = Len(argv) + 1
            /\ warnings' = warnings + 1
            /\ cl_args' = cl_args /\ config_file' = config_file]_vars

\* ------------------------------------------------------------------ C27
\* the places where a source assigned field f, and the value of the last one
AssignedAt(assigned, f) == {n \in 1..Len(assigned) : assigned[n].arg = f}
LastAssigned(assigned, f) ==
  assigned[CHOOSE n \in AssignedAt(assigned, f) :
             \A k \in AssignedAt(assigned, f) : k <= n].val

\* C27: when config_init has returned, a field the command line assigned
\* holds the value of its last assignment there; otherwise a field the file
\* assigned holds the value of its last assignment in the file.
C27_LastWriterInSource ==
  pc = "running" =>
    \A f \in FieldNames :
      IF AssignedAt(cl_args, f) # {}
      THEN cfg[f] = Convert(f, LastAssigned(cl_args, f))
      ELSE AssignedAt(fileAssigned, f) # {} =>
             cfg[f] = Convert(f, LastAssigned(fileAssigned, f))

\* ------------------------------------------------------------------ C28
InputDisabled == (cfg.flags \div 4) % 2 = 1
OutputDisabled == (cfg.flags \div 8) % 2 = 1

\* midi_init has run to its end without a failure and nothing was torn down
MidiInitSucceeded ==
  /\ cfg.midi_callback /\ "midi" \notin failed /\ deinits = 0
  /\ pc \in {"init_audio", "init_done", "running"} \cup AudioInitSteps
            \cup AudioTeardownSteps

\* C28: a midi_init that succeeds has opened the input stream exactly when
\* DISABLE_MIDI_IN is clear and the output stream exactly when
\* DISABLE_MIDI_OUT is clear, and the only way from an opened input to the
\* output part leads through Pm_SetFilter.
C28_StreamsFollowFlags ==
  [][/\ MidiInitSucceeded' =>
          /\ (midi_in' = "open") <=> ~InputDisabled'
          /\ (midi_out' = "open") <=> ~OutputDisabled'
     /\ (pc = "mi_in" /\ pc' # pc /\ midi_in' = "open") => pc' = "mi_filter"
     /\ (pc' = "mi_out" /\ pc # pc') =>
          \/ pc = "mi_filter" /\ midi_in = "open"
          \/ pc = "mi_in" /\ InputDisabled /\ midi_in' = "NULL"]_vars

\* input disabled by flag: only the output stream is open after midi_init
C28_Witness ==
  /\ MidiInitSucceeded /\ pc = "running"
  /\ InputDisabled /\ ~OutputDisabled
  /\ midi_in = "NULL" /\ midi_out = "open"

\* ------------------------------------------------------------------ C29
\* C29: the stream is opened only by audio_init from the unopened state and
\* started only by audio_init on a stream it has just opened; a block
\* callback executes only while the stream is running; the stream leaves
\* the running state only through audio_deinit's stop, is closed only from
\* the stopped state, and once audio_deinit has begun or the stream is
\* closed it is never started again.
C29_AudioLifeCycle ==
  [][/\ (stream' # stream /\ stream' = "open") =>
          \/ stream = "NULL" /\ pc = "ai_open"
          \/ stream = "running" /\ pc = "ad_stop"
     /\ (stream' # stream /\ stream' = "running") =>
          stream = "open" /\ pc = "ai_start"
     /\ (stream' # stream /\ stream' = "closed") =>
          stream = "open" /\ pc \in {"ad_close", "ad_term"}
     /\ stream' # "NULL" \/ stream = "NULL"
     /\ stream = "closed" => stream' = "closed"
     /\ (stream # "running" /\
           (pc \in AudioTeardownSteps \/ deinits >= 1 \/ "audio" \in failed)) =>
          stream' # "running"
     /\ th'.audio # th.audio => stream = "running"]_vars

\* the engine ran, blocks were processed, and it has been closed
C29_Witness ==
  /\ stream = "closed" /\ ~paInit /\ "audio" \notin failed
  /\ deinits = 1 /\ pc = "deinited" /\ blockTick

\* ------------------------------------------------------------------ C30
\* --config named a file that fopen cannot open
FileUnreadable == config_file # NULL /\ ~fileOk

\* C30: when the file named by --config cannot be opened, config_init goes
\* straight on to the command-line assignments with every field at its
\* default, and the resolved value of each field is one the command line
\* gave it, or else its default.
C30_UnreadableFileIgnored ==
  [][/\ (pc = "argparse" /\ i > Len(argv) /\ FileUnreadable) =>
          /\ pc' = "applycli"
          /\ config' = Defaults /\ fileAssigned' = <<>>
          /\ warnings' = warnings
     /\ (pc' = "running" /\ FileUnreadable') =>
          \A f \in FieldNames :
            IF ValuesFor(cl_args', f) # {}
            THEN \E v \in ValuesFor(cl_args', f) : cfg'[f] = Convert(f, v)
            ELSE cfg'[f] = Descriptor(f).default]_vars

\* `--config=f --sample_rate=96000` with f unreadable resolves to 96000.0
C30_Witness ==
  /\ pc = "running" /\ FileUnreadable
  /\ ValuesFor(cl_args, "sample_rate") = {T96000}
  /\ cfg.sample_rate = Dbl(96000, 0)
  /\ cfg.block_size = Descriptor("block_size").default

\* ------------------------------------------------------------------ C31
\* the flag bits other than DISABLE_MIDI: DISABLE_AUDIO, DISABLE_MIDI_IN,
\* DISABLE_MIDI_OUT, DISABLE_AUDIO_IN, DISABLE_AUDIO_OUT
OtherFlagBits == {2, 4, 8, 16, 32}
FlagSet(flags, bit) == (flags \div bit) % 2 = 1

\* C31: a step of midi_deinit leaves every flag bit other than DISABLE_MIDI
\* as it was, and the step that sets the flag leaves DISABLE_MIDI set.
C31_OnlyDisableMidiSet ==
  [][(pc \in MidiTeardownSteps /\ pc' # pc) =>
       /\ \A b \in OtherFlagBits : FlagSet(cfg'.flags, b) = FlagSet(cfg.flags, b)
       /\ pc = "md_close" => FlagSet(cfg'.flags, 1)]_vars

\* ------------------------------------------------------------------ C32
\* C32: a tick calls Pm_Read only while the input stream is open and
\* Pm_Write only while the output stream is open.
C32_TickUsesOpenStreams ==
  [][\A t \in Threads :
       /\ (th[t] = "m_read" /\ th'[t] # "m_read") => midi_in = "open"
       /\ (th[t] = "m_write" /\ th'[t] # "m_write") => midi_out = "open"]_vars

\* ------------------------------------------------------------------ C33
\* C33: the count the MIDI routine is about to be invoked with lies between
\* 0 and midi_buffer_size.
C33_CountInRange ==
  \A t \in Threads :
    th[t] = "m_user" => (0 <= inlen[t] /\ inlen[t] <= cfg.midi_buffer_size)

\* ------------------------------------------------------------------ C34
\* C34: between the return of config_init and config_deinit, with a MIDI
\* routine registered and midi_init completed without a failure, a clock
\* that drives the MIDI tick is running: the timer, or the audio stream.
C34_TickHasClock ==
  (pc = "running" /\ deinits = 0 /\ cfg.midi_callback /\ "midi" \notin failed)
    => (ptRunning \/ stream = "running")

\* ------------------------------------------------------------------ C35
\* C35: inside config_deinit a native audio teardown call is made only if an
\* audio routine was registered, and a native MIDI teardown call only if a
\* MIDI routine was registered.
C35_TeardownOnlyInitialised ==
  [][(deinits >= 1 /\ pc' # pc) =>
       /\ pc \in AudioTeardownSteps => cfg.audio_callback
       /\ pc \in MidiTeardownSteps => cfg.midi_callback]_vars

\* ------------------------------------------------------------------ C36
\* C36: when the merge resolved flags with DISABLE_MIDI set, no MIDI stream
\* is open and the timer does not run; when it resolved flags with
\* DISABLE_AUDIO set, the audio stream is not open.
C36_DisabledEngineStaysOff ==
  /\ FlagSet(config.flags, 1) =>
       midi_in # "open" /\ midi_out # "open" /\ ~ptRunning
  /\ FlagSet(config.flags, 2) => stream \notin {"open", "running"}

\* ---------------------------------------------------------------- C37
\* C37: during one audio_deinit each native teardown operation (stop,
\* close, terminate) is invoked exactly once, whether it succeeds or fails
\* and whatever the log level: the step of audio_deinit that performs an
\* operation leaves that operation's invocation count at one.
C37_TeardownOpsOnce ==
  [][(pc \in AudioTeardownSteps /\ pc' # pc) =>
       /\ pc = "ad_stop" => pa_calls'.stop = 1
       /\ pc = "ad_close" => pa_calls'.close = 1
       /\ pc = "ad_term" => pa_calls'.term = 1]_vars

\* ------------------------------------------------------------------ C38
\* the integer and unsigned fields, and the range of each one's type
IntegerField(f) ==
  f \in FieldNames /\ (IS_INT_TYPE(Descriptor(f).type) \/ IS_UINT_TYPE(Descriptor(f).type))
TypeWidth(t) ==
  IF t \in {"int8_t", "uint8_t"} THEN 8
  ELSE IF t \in {"int16_t", "uint16_t"} THEN 16
  ELSE IF t \in {"int", "int32_t", "uint32_t"} THEN 32
  ELSE 64
Fits(t, n) ==
  IF IS_UINT_TYPE(t) THEN 0 <= n /\ n < 2 ^ TypeWidth(t)
  ELSE 0 - 2 ^ (TypeWidth(t) - 1) <= n /\ n < 2 ^ (TypeWidth(t) - 1)

\* C38: merging a text in which a number starts into an integer or unsigned
\* field stores the parsed number when it fits the field's type, and does
\* not store the residue modulo 2^width of a number that does not fit.
C38_NoSilentWrap ==
  [][(/\ MergePending
      /\ IntegerField(PendingAssign.arg)
      /\ ~NoNumber(PendingAssign.val)) =>
       LET f == PendingAssign.arg
           t == Descriptor(f).type
           n == strtoll(PendingAssign.val)
       IN /\ Fits(t, n) => config'[f] = n
          /\ ~Fits(t, n) => config'[f] # n % (2 ^ TypeWidth(t))]_vars

====
